---- MODULE Spec2Model ----
(***************************************************************************)
(* Parameter search and evaluation-depth probing of the FHE benchmark      *)
(* drivers.  Every executable of the repository is a single-threaded       *)
(* program; `prog` says which one runs, `pc` is its control location.      *)
(* The HE backend (SEAL / HElib) is the environment: each backend call     *)
(* either returns or throws std::exception, a decryption either equals the *)
(* exact-arithmetic expectation or not.                                    *)
(***************************************************************************)
EXTENDS Integers, Sequences, FiniteSets, TLC

VARIABLES
    prog,             \* the executable that runs
    pc,               \* control location
    cfg,              \* 1-based index of the grid loop
    ctx,              \* context of the current iteration: "none", "valid", "invalid", "nobatch"
    operation_count,  \* the probe's counter
    op_count,         \* loop variable of the HElib probe's for loop
    tgt,              \* index into operation_sequence of the noise probe
    noise_budget,     \* last value read from invariant_noise_budget
    max_operations,   \* the driver's local max_operations
    console,          \* probe messages printed during the current iteration
    rows,             \* rows appended to the output file during the current iteration
    applied,          \* chain operations the backend completed on the running ciphertext
    mismatched,       \* the backend returned a wrong decryption in the current iteration
    faulted,          \* the backend threw, or the context was unusable, in the current iteration
    prevFailed,       \* the previous iteration had faulted or mismatched
    bad,              \* number of the first chain operation after which the running
                      \* ciphertext had failed (wrong decryption, or no noise budget
                      \* left); 0 while it is sound
    ct_size,          \* size of the running ciphertext of a multiplicative chain; 0 before encryption
    context,          \* the experiment object's shared_ptr<SEALContext>
    ptr,              \* its five raw pointers
    keys,             \* its key members held by value
    ci,               \* index of the loop over coeff_modulus_options
    pj,               \* index of the loop over plain_modulus_options
    accepted,         \* value returned by the last try_parameters call
    result,           \* value returned by setup_context: "none", "true", "false"
    attempts,         \* candidates tried by the running setup_context call, with their outcome
    opi,              \* index of the next operation of run_experiment
    logged,           \* rows logged by the current run_experiment call
    ub,               \* an object was deleted twice
    vector_size,      \* number of data values of the run (for a comparison: of real slots)
    slot_count,       \* slots of one ciphertext (nslots)
    num_ciphertexts,  \* chunks the loop processes
    chunk,            \* index of the loop over the chunks
    plain_data,       \* the vector encoded for the current chunk: real values, then zeros
    total_real,       \* real values carried by the chunks processed so far
    wrong,            \* slot indices at which the decrypted vector differs from the expected one
    matches,          \* result of the comparison (validation_passed in the HElib driver)
    rng               \* test operations that have drawn their data from the member
                      \* generator `rng` of seal_/different.cpp since its construction

vars == <<prog, pc, cfg, ctx, operation_count, op_count, tgt, noise_budget,
          max_operations, console, rows, applied, mismatched, faulted, prevFailed,
          bad, ct_size,
          context, ptr, keys, ci, pj, accepted, result, attempts, opi, logged, ub,
          vector_size, slot_count, num_ciphertexts, chunk, plain_data, total_real,
          wrong, matches, rng>>

\* the state of the chunked vector drivers and of the comparison routines
vecVars == <<vector_size, slot_count, num_ciphertexts, chunk, plain_data, total_real,
             wrong, matches, rng>>

\* the state of the experiment classes of same.cpp and rotation.cpp
setupVars == <<context, ptr, keys, ci, pj, accepted, result, attempts, opi, logged, ub>>

\* the state of the depth and noise probes
probeVars == <<ctx, operation_count, op_count, tgt, noise_budget, max_operations,
               console, rows, applied, mismatched, faulted, prevFailed, bad, ct_size>>

\* the variables only the HElib and noise probes write
aux == <<op_count, tgt, noise_budget>>

\* ---------------------------------------------------------------- bounds
\* Backend failures are injected only while the counter reached is within
\* MaxEarlyOps of the start or within MaxLateOps of the safety cap.
MaxEarlyOps == 3
MaxLateOps == 2
\* invariant_noise_budget returns a value in 0..MaxBudget
MaxBudget == 2
\* run_all_experiments of same.cpp and rotation.cpp runs each degree with the
\* first MaxVectorSizes entries of vector_sizes
MaxVectorSizes == 2

\* ------------------------------------------------------ program constants
CapPlus == 16384
CapTimes == 16384
CapPlain == 16384
CapHElib == 30

MayFail(n, cap) == n <= MaxEarlyOps \/ n + MaxLateOps > cap

\* ------------------------------------------------------------- the grids
PlusDegrees == <<1024, 2048, 4096, 8192, 16384, 32768>>
TimesDegrees == <<1024, 2048, 4096, 8192, 16384>>
PlainDegrees == <<1024, 2048, 4096, 8192, 16384, 32768>>
HElibPolyDegrees == <<1024, 2048, 4096, 8192, 16384, 32768>>
HElibPrimes == <<2, 17, 257, 8191, 65537>>
NoiseXDegrees == <<1024, 2048, 4096, 8192, 16384, 32768>>
NoisePDegrees == <<1024, 2048, 4096, 8192, 16384, 32768>>

\* the number of iterations of each driver's grid loop (nested loops flattened)
GridLen(p) ==
    CASE p = "plus" -> Len(PlusDegrees)
      [] p = "times" -> Len(TimesDegrees)
      [] p = "plain" -> Len(PlainDegrees)
      [] p = "helib" -> Len(HElibPolyDegrees) * Len(HElibPrimes)
      [] p = "noise_x" -> Len(NoiseXDegrees)
      [] p = "noise_p" -> Len(NoisePDegrees)

\* uint64_t get_plaintext_modulus(int poly_degree) of the three SEAL depth probes
get_plaintext_modulus(p, poly_degree) ==
    IF p = "times"
    THEN (IF poly_degree \in {1024, 2048} THEN 40961 ELSE 65537)
    ELSE CASE poly_degree = 16384 -> 132120577
           [] poly_degree = 32768 -> 265420801
           [] OTHER -> 65537

\* for (int j = 0; j < n; j++) expected = (expected * v) % t; started at 1
RECURSIVE PowLoop(_, _, _)
PowLoop(v, n, t) == IF n = 0 THEN 1 ELSE (PowLoop(v, n - 1, t) * v) % t

Expected_CountAsFactor(p, v, n, t) ==
    IF p = "plus" THEN (v * n) % t ELSE PowLoop(v, n, t)

\* the value the comparison loop of a depth probe expects in a slot that held v,
\* when the counter is n: (initial_vec[i] * (operation_count + 1)) % t in the
\* additive probe, the product of operation_count + 1 factors in the other two
Expected(p, v, n, t) ==
    IF p = "plus" THEN (v * (n + 1)) % t ELSE PowLoop(v, n + 1, t)

\* the slot value an exact backend decrypts after k operations on the running
\* ciphertext: the ciphertext starts as an encryption of v and each
\* add_inplace(current_ctxt, cipher2) adds v, each multiply_inplace(cipher1,
\* cipher2) or multiply_plain_inplace(cipher, plain) multiplies by v, modulo t
RECURSIVE ExactValue(_, _, _, _)
ExactValue(p, v, k, t) ==
    IF k = 0 THEN v % t
    ELSE IF p = "plus" THEN (ExactValue(p, v, k - 1, t) + v) % t
    ELSE (ExactValue(p, v, k - 1, t) * v) % t

\* the per-iteration variables a probe step leaves alone
drv == <<prog, cfg, prevFailed, setupVars, vecVars>>

\* a step of the exception handling shared by the SEAL depth probes: what the
\* console shows after outcome `out` of one loop body
Report(out) ==
    CASE out = "mismatch" -> console \cup {"mismatch"}
      [] out \in {"throw_op", "throw_dec"} -> console \cup {"failed"}
      [] OTHER -> console

LoopOutcomes == {"ok", "mismatch", "throw_op", "throw_dec"}

\* the backend's side of chain operation number n: a ciphertext that had
\* failed stays failed, a sound one may fail in this operation
AfterOp(n, cap) ==
    IF bad # 0 THEN {bad} ELSE IF MayFail(n, cap) THEN {0, n} ELSE {0}

\* the comparison of the decoded slots with the expected values passes on a
\* sound ciphertext only
Compared(out, b) == (out = "ok" => b = 0) /\ (out = "mismatch" => b # 0)

\* Evaluator::multiply_inplace with a fresh ciphertext adds one component
Multiply(s) == s + 1
\* Evaluator::relinearize_inplace brings the ciphertext back to two components
Relinearize(s) == 2
\* a freshly encrypted ciphertext
FreshSize == 2

\* ------------------------------------------- depth_cipher+cipher.cpp
PlusLoopCond_Inclusive(n) == n <= CapPlus

\* while (operation_count < 16384)
PlusLoopCond(n) == n < CapPlus

PlusCapReached_Strict(n) == n > CapPlus

\* if (operation_count >= 16384) cout << "Hit safety cap"
PlusCapReached(n) == n >= CapPlus

PlusResult_LastVerified(n) == n - 1

\* return operation_count;
PlusResult(n) == n
\* the row of the catch block of run_experiment
PlusCatchRow == 0

PlusAfterCatch_OutsideLoop == "done"

\* the try/catch lies inside the body of the grid loop: after the handler the
\* loop takes its next element
PlusAfterCatch == "next"

\* for (int poly_degree : poly_modulus_degrees) { try { generate_context; get_coeff_modulus_string
PlusGenerateContext ==
    /\ prog = "plus" /\ pc = "for"
    /\ IF cfg > GridLen(prog)
       THEN /\ pc' = "done"
            /\ UNCHANGED <<ctx, faulted>>
       ELSE \E out \in {"valid", "invalid", "throw"} :
              IF out = "throw"
              THEN /\ pc' = "catch" /\ faulted' = TRUE /\ UNCHANGED ctx
              ELSE /\ pc' = "probe" /\ ctx' = out /\ UNCHANGED faulted
    /\ UNCHANGED <<aux, drv, operation_count, max_operations, console, rows,
                   applied, mismatched, bad, ct_size>>

\* test_cipher_plus_cipher_operations, up to the first add_inplace outside the loop;
\* the KeyGenerator constructor throws on a context whose parameters are not set
PlusProbeSetup ==
    /\ prog = "plus" /\ pc = "probe"
    /\ \E out \in {"ok", "throw"} :
         /\ (out = "ok") => (ctx = "valid")
         /\ IF out = "ok"
            THEN /\ operation_count' = 1
                 /\ applied' = 1
                 /\ bad' \in AfterOp(1, CapPlus)
                 /\ pc' = "while"
                 /\ UNCHANGED faulted
            ELSE /\ pc' = "catch"
                 /\ faulted' = TRUE
                 /\ UNCHANGED <<operation_count, applied, bad>>
    /\ UNCHANGED <<aux, drv, ctx, max_operations, console, rows, mismatched, ct_size>>

PlusAfterBody_NoBreak(out) == "while"

\* where control goes after one loop body: `if (!matches) { ...; break; }` and
\* `catch (const exception& e) { ...; break; }` leave the loop
PlusAfterBody(out) == IF out = "ok" THEN "while" ELSE "after"

\* one evaluation of the while condition and, when it holds, one loop body:
\* add_inplace, operation_count++, decrypt, decode, compare
PlusWhile ==
    /\ prog = "plus" /\ pc = "while"
    /\ IF PlusLoopCond(operation_count)
       THEN \E out \in LoopOutcomes, b \in AfterOp(operation_count + 1, CapPlus) :
              /\ (out \in {"throw_op", "throw_dec"}) => MayFail(operation_count + 1, CapPlus)
              /\ Compared(out, b)
              /\ operation_count' = IF out = "throw_op" THEN operation_count
                                    ELSE operation_count + 1
              /\ applied' = IF out = "throw_op" THEN applied ELSE applied + 1
              /\ bad' = IF out = "throw_op" THEN bad ELSE b
              /\ mismatched' = (mismatched \/ out = "mismatch")
              /\ faulted' = (faulted \/ out \in {"throw_op", "throw_dec"})
              /\ console' = Report(out)
              /\ pc' = PlusAfterBody(out)
       ELSE /\ pc' = "after"
            /\ UNCHANGED <<operation_count, applied, mismatched, faulted, console, bad>>
    /\ UNCHANGED <<aux, drv, ctx, max_operations, rows, ct_size>>

\* the cap message and the return of operation_count into max_operations
PlusReturn ==
    /\ prog = "plus" /\ pc = "after"
    /\ console' = IF PlusCapReached(operation_count) THEN console \cup {"cap"} ELSE console
    /\ max_operations' = PlusResult(operation_count)
    /\ pc' = "emit"
    /\ UNCHANGED <<aux, drv, ctx, operation_count, rows, applied, mismatched, faulted,
                   bad, ct_size>>

\* output_file << poly_degree << ... << max_operations << ...
PlusEmit ==
    /\ prog = "plus" /\ pc = "emit"
    /\ rows' = Append(rows, max_operations)
    /\ pc' = "next"
    /\ UNCHANGED <<aux, drv, ctx, operation_count, max_operations, console,
                   applied, mismatched, faulted, bad, ct_size>>

\* catch (const exception& e) of run_experiment
PlusCatch ==
    /\ prog = "plus" /\ pc = "catch"
    /\ rows' = Append(rows, PlusCatchRow)
    /\ pc' = PlusAfterCatch
    /\ UNCHANGED <<aux, drv, ctx, operation_count, max_operations, console,
                   applied, mismatched, faulted, bad, ct_size>>

\* ------------------------------------------- depth_cipherxplain.cpp
PlainLoopCond(n) == n < CapPlain
PlainCapReached(n) == n >= CapPlain
PlainResult(n) == n
PlainCatchRow == 0

PlainGenerateContext ==
    /\ prog = "plain" /\ pc = "for"
    /\ IF cfg > GridLen(prog)
       THEN /\ pc' = "done"
            /\ UNCHANGED <<ctx, faulted>>
       ELSE \E out \in {"valid", "invalid", "throw"} :
              IF out = "throw"
              THEN /\ pc' = "catch" /\ faulted' = TRUE /\ UNCHANGED ctx
              ELSE /\ pc' = "probe" /\ ctx' = out /\ UNCHANGED faulted
    /\ UNCHANGED <<aux, drv, operation_count, max_operations, console, rows,
                   applied, mismatched, bad, ct_size>>

\* test_cipher_times_plain_operations up to `int operation_count = 0`
PlainProbeSetup ==
    /\ prog = "plain" /\ pc = "probe"
    /\ \E out \in {"ok", "throw"} :
         /\ (out = "ok") => (ctx = "valid")
         /\ IF out = "ok"
            THEN /\ operation_count' = 0
                 /\ applied' = 0
                 /\ pc' = "while"
                 /\ UNCHANGED faulted
            ELSE /\ pc' = "catch"
                 /\ faulted' = TRUE
                 /\ UNCHANGED <<operation_count, applied>>
    /\ UNCHANGED <<aux, drv, ctx, max_operations, console, rows, mismatched, bad,
                   ct_size>>

\* multiply_plain_inplace, operation_count++, decrypt, decode, compare
PlainWhile ==
    /\ prog = "plain" /\ pc = "while"
    /\ IF PlainLoopCond(operation_count)
       THEN \E out \in LoopOutcomes, b \in AfterOp(operation_count + 1, CapPlain) :
              /\ (out \in {"throw_op", "throw_dec"}) => MayFail(operation_count + 1, CapPlain)
              /\ Compared(out, b)
              /\ operation_count' = IF out = "throw_op" THEN operation_count
                                    ELSE operation_count + 1
              /\ applied' = IF out = "throw_op" THEN applied ELSE applied + 1
              /\ bad' = IF out = "throw_op" THEN bad ELSE b
              /\ mismatched' = (mismatched \/ out = "mismatch")
              /\ faulted' = (faulted \/ out \in {"throw_op", "throw_dec"})
              /\ console' = Report(out)
              /\ pc' = IF out = "ok" THEN "while" ELSE "after"
       ELSE /\ pc' = "after"
            /\ UNCHANGED <<operation_count, applied, mismatched, faulted, console, bad>>
    /\ UNCHANGED <<aux, drv, ctx, max_operations, rows, ct_size>>

PlainReturn ==
    /\ prog = "plain" /\ pc = "after"
    /\ console' = IF PlainCapReached(operation_count) THEN console \cup {"cap"} ELSE console
    /\ max_operations' = PlainResult(operation_count)
    /\ pc' = "emit"
    /\ UNCHANGED <<aux, drv, ctx, operation_count, rows, applied, mismatched, faulted,
                   bad, ct_size>>

PlainEmit ==
    /\ prog = "plain" /\ pc = "emit"
    /\ rows' = Append(rows, max_operations)
    /\ pc' = "next"
    /\ UNCHANGED <<aux, drv, ctx, operation_count, max_operations, console,
                   applied, mismatched, faulted, bad, ct_size>>

PlainCatch ==
    /\ prog = "plain" /\ pc = "catch"
    /\ rows' = Append(rows, PlainCatchRow)
    /\ pc' = "next"
    /\ UNCHANGED <<aux, drv, ctx, operation_count, max_operations, console,
                   applied, mismatched, faulted, bad, ct_size>>

\* ------------------------------------------- depth_cipherxcipher.cpp
TimesLoopCond(n) == n < CapTimes
TimesCapReached(n) == n >= CapTimes
TimesResult(n) == n
\* return 0 of the probe's early exits and of its catch block
TimesFailResult == 0

\* try { generate_context; if (!context->parameters_set()) continue; get_coeff_modulus_string
TimesGenerateContext ==
    /\ prog = "times" /\ pc = "for"
    /\ IF cfg > GridLen(prog)
       THEN /\ pc' = "done"
            /\ UNCHANGED <<ctx, faulted>>
       ELSE \E out \in {"valid", "nobatch", "invalid", "throw"} :
              CASE out = "throw" ->
                     /\ pc' = "catch" /\ faulted' = TRUE /\ UNCHANGED ctx
                [] out = "invalid" ->
                     /\ pc' = "next" /\ faulted' = TRUE /\ ctx' = out
                [] OTHER ->
                     /\ pc' = "probe" /\ ctx' = out /\ UNCHANGED faulted
    /\ UNCHANGED <<aux, drv, operation_count, max_operations, console, rows,
                   applied, mismatched, bad, ct_size>>

\* test_cipher_times_cipher_operations up to `int operation_count = 0`: the two
\* early returns, then key generation, encoding and encryption inside the try
TimesProbeSetup ==
    /\ prog = "times" /\ pc = "probe"
    /\ IF ctx = "invalid" \/ ctx = "nobatch"
       THEN /\ max_operations' = TimesFailResult
            /\ faulted' = TRUE
            /\ pc' = "emit"
            /\ UNCHANGED <<operation_count, applied, console, ct_size>>
       ELSE \E out \in {"ok", "throw"} :
              IF out = "ok"
              THEN /\ operation_count' = 0
                   /\ applied' = 0
                   /\ ct_size' = FreshSize
                   /\ pc' = "while"
                   /\ UNCHANGED <<faulted, max_operations, console>>
              ELSE /\ max_operations' = TimesFailResult
                   /\ faulted' = TRUE
                   /\ console' = console \cup {"failed"}
                   /\ pc' = "emit"
                   /\ UNCHANGED <<operation_count, applied, ct_size>>
    /\ UNCHANGED <<aux, drv, ctx, rows, mismatched, bad>>

\* the outcomes of one loop body: "throw_op" is an exception in multiply_inplace,
\* "throw_relin" one in relinearize_inplace, "throw_dec" one in decrypt or decode
TimesLoopOutcomes == LoopOutcomes \cup {"throw_relin"}
TimesThrows == {"throw_op", "throw_relin", "throw_dec"}

\* the statements of the loop body that precede the decryption, applied to the
\* size of cipher1
TimesChainStep(s) == Relinearize(Multiply(s))

\* multiply_inplace, relinearize_inplace, operation_count++, decrypt, decode,
\* compare; an exception leaves the loop for the probe's catch block
TimesWhile ==
    /\ prog = "times" /\ pc = "while"
    /\ IF TimesLoopCond(operation_count)
       THEN \E out \in TimesLoopOutcomes, b \in AfterOp(operation_count + 1, CapTimes) :
              /\ (out \in TimesThrows) => MayFail(operation_count + 1, CapTimes)
              /\ Compared(out, b)
              /\ operation_count' = IF out \in {"throw_op", "throw_relin"}
                                    THEN operation_count ELSE operation_count + 1
              /\ applied' = IF out = "throw_op" THEN applied ELSE applied + 1
              /\ ct_size' = CASE out = "throw_op" -> ct_size
                               [] out = "throw_relin" -> Multiply(ct_size)
                               [] OTHER -> TimesChainStep(ct_size)
              /\ bad' = IF out = "throw_op" THEN bad ELSE b
              /\ mismatched' = (mismatched \/ out = "mismatch")
              /\ faulted' = (faulted \/ out \in TimesThrows)
              /\ console' = IF out \in TimesThrows THEN console \cup {"failed"}
                            ELSE Report(out)
              /\ IF out \in TimesThrows
                 THEN /\ max_operations' = TimesFailResult
                      /\ pc' = "emit"
                 ELSE /\ pc' = IF out = "ok" THEN "while" ELSE "after"
                      /\ UNCHANGED max_operations
       ELSE /\ pc' = "after"
            /\ UNCHANGED <<operation_count, applied, mismatched, faulted, console,
                           max_operations, bad, ct_size>>
    /\ UNCHANGED <<aux, drv, ctx, rows>>

TimesReturn ==
    /\ prog = "times" /\ pc = "after"
    /\ console' = IF TimesCapReached(operation_count) THEN console \cup {"cap"} ELSE console
    /\ max_operations' = TimesResult(operation_count)
    /\ pc' = "emit"
    /\ UNCHANGED <<aux, drv, ctx, operation_count, rows, applied, mismatched, faulted,
                   bad, ct_size>>

TimesEmit ==
    /\ prog = "times" /\ pc = "emit"
    /\ rows' = Append(rows, max_operations)
    /\ pc' = "next"
    /\ UNCHANGED <<aux, drv, ctx, operation_count, max_operations, console,
                   applied, mismatched, faulted, bad, ct_size>>

\* catch (const exception& e) of run_experiment: a console message only
TimesCatch ==
    /\ prog = "times" /\ pc = "catch"
    /\ pc' = "next"
    /\ UNCHANGED <<aux, drv, ctx, operation_count, max_operations, console, rows,
                   applied, mismatched, faulted, bad, ct_size>>

\* ------------------------------- HElib/without_HEXL/polydegree_p_depth_eval.cpp
\* for (long op_count = 1; op_count <= 30; op_count++)
HElibLoopCond(n) == n <= CapHElib
\* max_operations = op_count, after a verified multiplication
HElibVerified(n) == n

\* for m, for p: try { context, keys; if (vector_size > nslots) continue;
\* encrypt; long max_operations = 0; op_count = 1
HElibBuild ==
    /\ prog = "helib" /\ pc = "for"
    /\ IF cfg > GridLen(prog)
       THEN /\ pc' = "done"
            /\ UNCHANGED <<faulted, max_operations, op_count, applied>>
       ELSE \E out \in {"ok", "few_slots", "throw"} :
              CASE out = "throw" ->
                     /\ pc' = "catch" /\ faulted' = TRUE
                     /\ UNCHANGED <<max_operations, op_count, applied>>
                [] out = "few_slots" ->
                     /\ pc' = "next" /\ faulted' = TRUE
                     /\ UNCHANGED <<max_operations, op_count, applied>>
                [] OTHER ->
                     /\ pc' = "while" /\ max_operations' = 0 /\ op_count' = 1
                     /\ applied' = 0 /\ UNCHANGED faulted
    /\ UNCHANGED <<drv, ctx, operation_count, tgt, noise_budget, console, rows, mismatched,
                   bad, ct_size>>

\* one evaluation of the for condition and, when it holds, one body:
\* multiplyBy, decrypt, verifyOperation, then max_operations = op_count or break
HElibFor ==
    /\ prog = "helib" /\ pc = "while"
    /\ IF HElibLoopCond(op_count)
       THEN \E out \in LoopOutcomes, b \in AfterOp(op_count, CapHElib) :
              /\ (out \in {"throw_op", "throw_dec"}) => MayFail(op_count, CapHElib)
              /\ Compared(out, b)
              /\ applied' = IF out = "throw_op" THEN applied ELSE applied + 1
              /\ bad' = IF out = "throw_op" THEN bad ELSE b
              /\ mismatched' = (mismatched \/ out = "mismatch")
              /\ faulted' = (faulted \/ out \in {"throw_op", "throw_dec"})
              /\ console' = IF out = "mismatch" THEN console \cup {"mismatch"} ELSE console
              /\ max_operations' = IF out = "ok" THEN HElibVerified(op_count)
                                   ELSE max_operations
              /\ op_count' = IF out = "ok" THEN op_count + 1 ELSE op_count
              /\ pc' = CASE out = "ok" -> "while"
                         [] out = "mismatch" -> "emit"
                         [] OTHER -> "catch"
       ELSE /\ pc' = "emit"
            /\ UNCHANGED <<applied, mismatched, faulted, console, max_operations, op_count,
                           bad>>
    /\ UNCHANGED <<drv, ctx, operation_count, tgt, noise_budget, rows, ct_size>>

\* logResult(csv, m, p, max_operations, nslots, security_level)
HElibLogResult ==
    /\ prog = "helib" /\ pc = "emit"
    /\ rows' = Append(rows, max_operations)
    /\ pc' = "next"
    /\ UNCHANGED <<aux, drv, ctx, operation_count, max_operations, console,
                   applied, mismatched, faulted, bad, ct_size>>

\* catch (const exception& e) { cerr << ... }
HElibCatch ==
    /\ prog = "helib" /\ pc = "catch"
    /\ pc' = "next"
    /\ UNCHANGED <<aux, drv, ctx, operation_count, max_operations, console, rows,
                   applied, mismatched, faulted, bad, ct_size>>

\* ------------------------------------------- seal_/noise_cipherxcipher.cpp
\* operation_sequence of experiment_ct_x_ct_for_degree
NoiseXSequence(degree) ==
    IF degree <= 4096 THEN <<2, 4, 8, 16, 32, 64, 128>> ELSE <<2, 4, 8, 16, 32>>

\* if (noise_budget <= 0)
NoiseXExhausted(b) == b <= 0

\* try { experiment_ct_x_ct_for_degree(degree): parameters, context, keys,
\* the two encryptions
NoiseXSetup ==
    /\ prog = "noise_x" /\ pc = "for"
    /\ IF cfg > GridLen(prog)
       THEN /\ pc' = "done" /\ UNCHANGED faulted
       ELSE \E out \in {"ok", "throw"} :
              IF out = "ok"
              THEN /\ pc' = "first" /\ UNCHANGED faulted
              ELSE /\ pc' = "catch" /\ faulted' = TRUE
    /\ UNCHANGED <<aux, drv, ctx, operation_count, max_operations, console, rows,
                   applied, mismatched, bad, ct_size>>

\* the first operation after which invariant_noise_budget returned b <= 0
NoiseXFailedAt(n, b) == IF bad # 0 THEN bad ELSE IF NoiseXExhausted(b) THEN n ELSE 0

\* multiply, relinearize_inplace, operation_count = 1, the first budget row
NoiseXFirst ==
    /\ prog = "noise_x" /\ pc = "first"
    /\ \E out \in {"ok", "throw"} :
         IF out = "ok"
         THEN \E b \in 0..MaxBudget :
                /\ operation_count' = 1
                /\ applied' = 1
                /\ noise_budget' = b
                /\ rows' = Append(rows, [ops |-> 1, budget |-> b, exhausted |-> FALSE])
                /\ tgt' = 1
                /\ bad' = NoiseXFailedAt(1, b)
                /\ ct_size' = Relinearize(Multiply(FreshSize))
                /\ pc' = "while"
                /\ UNCHANGED faulted
         ELSE /\ pc' = "catch" /\ faulted' = TRUE
              /\ UNCHANGED <<operation_count, applied, noise_budget, rows, tgt, bad,
                             ct_size>>
    /\ UNCHANGED <<drv, ctx, op_count, max_operations, console, mismatched>>

\* one step of `for (int target_ops : operation_sequence) while (operation_count <
\* target_ops)`: a loop body, or the checkpoint row that follows the while
NoiseXWhile ==
    /\ prog = "noise_x" /\ pc = "while"
    /\ LET seq == NoiseXSequence(NoiseXDegrees[cfg]) IN
       IF tgt > Len(seq)
       THEN /\ pc' = "next"
            /\ UNCHANGED <<operation_count, applied, noise_budget, rows, tgt, faulted,
                           bad, ct_size>>
       ELSE IF operation_count < seq[tgt]
       THEN \E out \in {"ok", "throw", "throw_relin"} :
              CASE out = "ok" ->
                     \E b \in 0..noise_budget :
                       /\ operation_count' = operation_count + 1
                       /\ applied' = applied + 1
                       /\ noise_budget' = b
                       /\ bad' = NoiseXFailedAt(operation_count + 1, b)
                       /\ ct_size' = Relinearize(Multiply(ct_size))
                       /\ IF NoiseXExhausted(b)
                          THEN /\ rows' = Append(rows, [ops |-> operation_count + 1,
                                                        budget |-> b, exhausted |-> TRUE])
                               /\ pc' = "next"
                          ELSE /\ UNCHANGED rows /\ pc' = "while"
                       /\ UNCHANGED <<tgt, faulted>>
                [] out = "throw_relin" ->
                     /\ pc' = "catch" /\ faulted' = TRUE
                     /\ applied' = applied + 1
                     /\ ct_size' = Multiply(ct_size)
                     /\ UNCHANGED <<operation_count, noise_budget, rows, tgt, bad>>
                [] OTHER ->
                     /\ pc' = "catch" /\ faulted' = TRUE
                     /\ UNCHANGED <<operation_count, applied, noise_budget, rows, tgt,
                                    bad, ct_size>>
       ELSE /\ rows' = Append(rows, [ops |-> operation_count, budget |-> noise_budget,
                                     exhausted |-> FALSE])
            /\ tgt' = tgt + 1
            /\ pc' = "while"
            /\ UNCHANGED <<operation_count, applied, noise_budget, faulted, bad, ct_size>>
    /\ UNCHANGED <<drv, ctx, op_count, max_operations, console, mismatched>>

\* catch (const exception &e) of experiment_ct_x_ct
NoiseXCatch ==
    /\ prog = "noise_x" /\ pc = "catch"
    /\ pc' = "next"
    /\ UNCHANGED <<aux, drv, ctx, operation_count, max_operations, console, rows,
                   applied, mismatched, faulted, bad, ct_size>>

\* ------------------------------------------- seal_/noise_cipher+cipher.cpp
\* operation_sequence of experiment_ct_plus_ct_for_degree
NoisePSequence(degree) ==
    IF degree <= 4096 THEN <<2, 4, 8, 16, 32, 64, 128, 256, 512, 1024, 2048, 4096>>
    ELSE IF degree = 8192 THEN <<2, 4, 8, 16, 32, 64, 128, 256, 512, 1024, 2048>>
    ELSE <<2, 4, 8, 16, 32, 64, 128, 256, 512>>

\* the last checkpoint of the running configuration
NoisePLast == LET seq == NoisePSequence(NoisePDegrees[cfg]) IN seq[Len(seq)]

\* if (noise_budget <= 0)
NoisePExhausted(b) == b <= 0

NoisePExhaustedRow_AsCheckpoint(n, b) == [ops |-> n, budget |-> b, exhausted |-> FALSE]

\* the row written for an exhausted chain carries operation_count
NoisePExhaustedRow(n, b) == [ops |-> n, budget |-> b, exhausted |-> TRUE]

\* the first operation after which invariant_noise_budget returned b <= 0
NoisePFailedAt(n, b) == IF bad # 0 THEN bad ELSE IF NoisePExhausted(b) THEN n ELSE 0

\* the values invariant_noise_budget can return after operation n: the budget
\* never grows
NoisePBudgets(n) == IF MayFail(n, NoisePLast) THEN 0..noise_budget ELSE {noise_budget}

\* try { experiment_ct_plus_ct_for_degree(degree): the parameters (whose catch
\* returns), the parameters_set() test (which returns), keys and encryptions
NoisePSetup ==
    /\ prog = "noise_p" /\ pc = "for"
    /\ IF cfg > GridLen(prog)
       THEN /\ pc' = "done" /\ UNCHANGED faulted
       ELSE \E out \in {"ok", "params_throw", "invalid", "throw"} :
              CASE out = "ok" -> /\ pc' = "first" /\ UNCHANGED faulted
                [] out = "throw" -> /\ pc' = "catch" /\ faulted' = TRUE
                [] OTHER -> /\ pc' = "next" /\ faulted' = TRUE
    /\ UNCHANGED <<aux, drv, ctx, operation_count, max_operations, console, rows,
                   applied, mismatched, bad, ct_size>>

\* evaluator.add, operation_count = 1, the first budget row
NoisePFirst ==
    /\ prog = "noise_p" /\ pc = "first"
    /\ \E out \in {"ok", "throw_op", "throw_budget"} :
         CASE out = "ok" ->
                \E b \in 0..MaxBudget :
                  /\ operation_count' = 1
                  /\ applied' = 1
                  /\ noise_budget' = b
                  /\ rows' = Append(rows, [ops |-> 1, budget |-> b, exhausted |-> FALSE])
                  /\ tgt' = 1
                  /\ bad' = NoisePFailedAt(1, b)
                  /\ pc' = "while"
                  /\ UNCHANGED faulted
           [] out = "throw_budget" ->
                /\ operation_count' = 1
                /\ applied' = 1
                /\ pc' = "catch" /\ faulted' = TRUE
                /\ UNCHANGED <<noise_budget, rows, tgt, bad>>
           [] OTHER ->
                /\ pc' = "catch" /\ faulted' = TRUE
                /\ UNCHANGED <<operation_count, applied, noise_budget, rows, tgt, bad>>
    /\ UNCHANGED <<drv, ctx, op_count, max_operations, console, mismatched, ct_size>>

\* one step of `for (int target_ops : operation_sequence) while (operation_count <
\* target_ops)`: a loop body (add_inplace, operation_count++, budget test), or
\* the checkpoint row that follows the while
NoisePWhile ==
    /\ prog = "noise_p" /\ pc = "while"
    /\ LET seq == NoisePSequence(NoisePDegrees[cfg]) IN
       IF tgt > Len(seq)
       THEN /\ pc' = "next"
            /\ UNCHANGED <<operation_count, applied, noise_budget, rows, tgt, faulted, bad>>
       ELSE IF operation_count < seq[tgt]
       THEN \E out \in {"ok", "throw_op", "throw_budget"} :
              /\ (out # "ok") => MayFail(operation_count + 1, NoisePLast)
              /\ CASE out = "ok" ->
                     \E b \in NoisePBudgets(operation_count + 1) :
                       /\ operation_count' = operation_count + 1
                       /\ applied' = applied + 1
                       /\ noise_budget' = b
                       /\ bad' = NoisePFailedAt(operation_count + 1, b)
                       /\ IF NoisePExhausted(b)
                          THEN /\ rows' = Append(rows,
                                                 NoisePExhaustedRow(operation_count + 1, b))
                               /\ pc' = "next"
                          ELSE /\ UNCHANGED rows /\ pc' = "while"
                       /\ UNCHANGED <<tgt, faulted>>
                   [] out = "throw_budget" ->
                     /\ operation_count' = operation_count + 1
                     /\ applied' = applied + 1
                     /\ pc' = "catch" /\ faulted' = TRUE
                     /\ UNCHANGED <<noise_budget, rows, tgt, bad>>
                   [] OTHER ->
                     /\ pc' = "catch" /\ faulted' = TRUE
                     /\ UNCHANGED <<operation_count, applied, noise_budget, rows, tgt, bad>>
       ELSE \E out \in {"ok", "throw_budget"} :
              /\ (out # "ok") => MayFail(operation_count, NoisePLast)
              /\ IF out = "ok"
                 THEN /\ rows' = Append(rows, [ops |-> operation_count,
                                               budget |-> noise_budget,
                                               exhausted |-> FALSE])
                      /\ tgt' = tgt + 1
                      /\ pc' = "while"
                      /\ UNCHANGED faulted
                 ELSE /\ pc' = "catch" /\ faulted' = TRUE
                      /\ UNCHANGED <<rows, tgt>>
              /\ UNCHANGED <<operation_count, applied, noise_budget, bad>>
    /\ UNCHANGED <<drv, ctx, op_count, max_operations, console, mismatched, ct_size>>

\* catch (const exception &e) of experiment_ct_plus_ct
NoisePCatch ==
    /\ prog = "noise_p" /\ pc = "catch"
    /\ pc' = "next"
    /\ UNCHANGED <<aux, drv, ctx, operation_count, max_operations, console, rows,
                   applied, mismatched, faulted, bad, ct_size>>

NextElement_Same(c) == c

\* for (int poly_degree : poly_modulus_degrees): the range-based loop advances
\* by one element after every execution of its body
NextElement(c) == c + 1

\* the grid loop moves to its next element
ForNext ==
    /\ prog \in {"plus", "plain", "times", "helib", "noise_x", "noise_p"} /\ pc = "next"
    /\ cfg' = NextElement(cfg)
    /\ prevFailed' = (faulted \/ mismatched)
    /\ pc' = "for"
    /\ ctx' = "none"
    /\ operation_count' = 0
    /\ max_operations' = 0
    /\ console' = {}
    /\ rows' = <<>>
    /\ applied' = 0
    /\ mismatched' = FALSE
    /\ faulted' = FALSE
    /\ op_count' = 0
    /\ tgt' = 0
    /\ noise_budget' = 0
    /\ bad' = 0
    /\ ct_size' = 0
    /\ UNCHANGED <<prog, setupVars, vecVars>>

\* ============================ seal_/same.cpp and seal_/rotation.cpp
Ptrs == {"keygen", "encryptor", "evaluator", "decryptor", "batch_encoder"}
KeyMembers == {"secret_key", "public_key", "galois_keys"}

SameDegrees == <<1024, 2048, 4096, 8192, 16384, 32768>>
RotDegrees == <<1024, 2048, 4096, 8192, 16384, 32768>>
\* for (int i = 10; i <= 20; i++) vector_sizes.push_back(1 << i)
SameFirstShift == 10
SameLastShift == 20
\* for (int i = 4; i <= 10; i++) vector_sizes.push_back(1 << i)
RotFirstShift == 4
RotLastShift == 10

SamePlainModulusOptions == <<65537, 12289, 40961, 114689>>
RotPlainModulusOptions == <<65537, 12289, 40961>>

SameCoeffModulusOptions(degree) ==
    CASE degree = 1024 -> << <<27, 27>>, <<30, 30>>, <<27, 27, 27>>, <<20, 20>> >>
      [] degree = 2048 -> << <<36, 36, 37>>, <<30, 30, 30>>, <<36, 36>>, <<27, 27, 27>> >>
      [] degree = 4096 -> << <<36, 36, 37>>, <<43, 43, 44>>, <<36, 36>> >>
      [] degree = 8192 -> << <<43, 43, 44, 44>>, <<50, 50, 50, 50>> >>
      [] degree = 16384 -> << <<43, 43, 44, 44>>, <<50, 50, 50, 50>> >>
      [] degree = 32768 -> << <<50, 50, 50, 50, 50>>, <<60, 60, 60, 60, 60>> >>
      [] OTHER -> << >>

RotCoeffModulusOptions(degree) ==
    CASE degree = 1024 -> << <<27, 27>>, <<30, 30>>, <<27, 27, 27>>, <<20, 20>> >>
      [] degree = 2048 -> << <<36, 36, 37>>, <<30, 30, 30>>, <<36, 36>>, <<27, 27, 27>> >>
      [] OTHER -> << >>

Min(a, b) == IF a < b THEN a ELSE b
SameSizes == Min(SameLastShift - SameFirstShift + 1, MaxVectorSizes)
RotSizes == Min(RotLastShift - RotFirstShift + 1, MaxVectorSizes)

\* run_all_experiments: for poly_degree, for vec_size, flattened into cfg
SetupGridLen(p) ==
    IF p = "same" THEN Len(SameDegrees) * SameSizes ELSE Len(RotDegrees) * RotSizes

Degree(p, c) ==
    IF p = "same" THEN SameDegrees[((c - 1) \div SameSizes) + 1]
    ELSE RotDegrees[((c - 1) \div RotSizes) + 1]

\* the candidate the loops of setup_context stand at
Candidate(i, j) == <<i, j>>
FallbackCandidate == <<0, 0>>

NoContext == [src |-> "none", cand |-> FallbackCandidate, valid |-> FALSE]
\* a context left by an earlier setup_context call, as the running call sees it
Earlier(c) == IF c.src = "none" THEN c ELSE [c EXCEPT !.src = "earlier", !.cand = FallbackCandidate]

\* cleanup(): every non-null pointer is deleted and keeps its value
Deleted(q) == [x \in Ptrs |-> IF q[x] = "null" THEN "null" ELSE "dangling"]
\* cleanup() reaches a pointer whose object was deleted before
DoubleDelete(q) == \E x \in Ptrs : q[x] = "dangling"

\* what becomes of a member when `context` is assigned a new SEALContext
Aged(v) == CASE v = "live" -> "old" [] v = "cur" -> "old" [] OTHER -> v

SameConstruction_NoDecryptor ==
    <<"keygen", "secret_key", "public_key", "encryptor", "evaluator", "batch_encoder">>

\* the statements that follow the parameters_set() test, in order
SameConstruction ==
    <<"keygen", "secret_key", "public_key", "encryptor", "evaluator", "decryptor",
      "batch_encoder">>
RotConstruction ==
    <<"keygen", "secret_key", "public_key", "galois_keys", "encryptor", "evaluator",
      "decryptor", "batch_encoder">>

\* the outcomes the backend can give one attempt: an exception before `context`
\* is assigned, parameters_set() false, or n construction statements completed
\* (an exception in statement n + 1 when n is not the last)
Outcomes(steps) ==
    {[kind |-> "throw_params", n |-> 0], [kind |-> "invalid", n |-> 0]}
    \cup {[kind |-> "built", n |-> n] : n \in 0..Len(steps)}

Accepts_WithoutValidityTest(steps, out) ==
    out.kind = "invalid" \/ (out.kind = "built" /\ out.n = Len(steps))

\* try_parameters returns true
Accepts(steps, out) == out.kind = "built" /\ out.n = Len(steps)
\* the attempt ends in a catch block
Throws(steps, out) ==
    out.kind = "throw_params" \/ (out.kind = "built" /\ out.n < Len(steps))

\* the members after the attempt's statements ran, before any catch block
Assigned(steps, out, x, old, fresh) ==
    IF out.kind = "throw_params" THEN old
    ELSE IF out.kind = "built" /\ \E k \in 1..out.n : steps[k] = x THEN fresh
    ELSE Aged(old)

ContextAfter(out, src, cand) ==
    IF out.kind = "throw_params" THEN context
    ELSE [src |-> src, cand |-> cand, valid |-> (out.kind = "built")]

\* ---------------------------------------------------------- seal_/same.cpp
SameReturnsOn_KeepsSearching(acc) == FALSE

\* if (try_parameters(...)) { ... return true; }
SameReturnsOn(acc) == acc

\* setup_context up to the candidate loops: cleanup() and the option lists
SameSetupBegin ==
    /\ prog = "same" /\ pc = "for" /\ cfg <= SetupGridLen(prog)
    /\ ptr' = Deleted(ptr)
    /\ ub' = (ub \/ DoubleDelete(ptr))
    /\ pc' \in IF DoubleDelete(ptr) THEN {"try", "crashed"} ELSE {"try"}
    /\ ci' = 1 /\ pj' = 1
    /\ context' = Earlier(context)
    /\ UNCHANGED <<prog, cfg, probeVars, vecVars, keys, accepted, result, attempts, opi, logged>>

\* bool try_parameters(poly_modulus_degree, bit_sizes, plain_mod)
SameTryParameters ==
    /\ prog = "same" /\ pc = "try"
    /\ \E out \in Outcomes(SameConstruction) :
         LET q == [x \in Ptrs |-> Assigned(SameConstruction, out, x, ptr[x], "live")]
             caught == Throws(SameConstruction, out)
         IN  /\ context' = ContextAfter(out, "candidate", Candidate(ci, pj))
             /\ keys' = [x \in KeyMembers |->
                           Assigned(SameConstruction, out, x, keys[x], "cur")]
             /\ ptr' = IF caught THEN Deleted(q) ELSE q
             /\ ub' = (ub \/ (caught /\ DoubleDelete(q)))
             /\ pc' \in IF caught /\ DoubleDelete(q) THEN {"tried", "crashed"}
                        ELSE {"tried"}
             /\ accepted' = Accepts(SameConstruction, out)
             /\ attempts' = Append(attempts, [c |-> Candidate(ci, pj),
                                              ok |-> Accepts(SameConstruction, out)])
    /\ UNCHANGED <<prog, cfg, probeVars, vecVars, ci, pj, result, opi, logged>>

\* if (try_parameters(...)) return true; else cleanup(); and the loop increments
SameAfterTry ==
    /\ prog = "same" /\ pc = "tried"
    /\ IF SameReturnsOn(accepted)
       THEN /\ result' = "true"
            /\ pc' = "setup_done"
            /\ UNCHANGED <<ptr, ub, ci, pj>>
       ELSE LET more == pj < Len(SamePlainModulusOptions)
                        \/ ci < Len(SameCoeffModulusOptions(Degree(prog, cfg)))
                to == IF more THEN "try" ELSE "fallback"
            IN  /\ ptr' = Deleted(ptr)
                /\ ub' = (ub \/ DoubleDelete(ptr))
                /\ pc' \in IF DoubleDelete(ptr) THEN {to, "crashed"} ELSE {to}
                /\ pj' = IF pj < Len(SamePlainModulusOptions) THEN pj + 1 ELSE 1
                /\ ci' = IF pj < Len(SamePlainModulusOptions) THEN ci ELSE ci + 1
                /\ UNCHANGED result
    /\ UNCHANGED <<prog, cfg, probeVars, vecVars, context, keys, accepted, attempts, opi, logged>>

\* "If all else fails, try with batching": the last attempt, inside setup_context
SameFallback ==
    /\ prog = "same" /\ pc = "fallback"
    /\ \E out \in Outcomes(SameConstruction) :
         /\ context' = ContextAfter(out, "fallback", FallbackCandidate)
         /\ keys' = [x \in KeyMembers |->
                       Assigned(SameConstruction, out, x, keys[x], "cur")]
         /\ ptr' = [x \in Ptrs |-> Assigned(SameConstruction, out, x, ptr[x], "live")]
         /\ result' = IF Accepts(SameConstruction, out) THEN "true" ELSE "false"
         /\ attempts' = Append(attempts, [c |-> FallbackCandidate,
                                          ok |-> Accepts(SameConstruction, out)])
    /\ pc' = "setup_done"
    /\ UNCHANGED <<prog, cfg, probeVars, vecVars, ci, pj, accepted, opi, logged, ub>>

\* run_experiment after setup_context returned
SameRunExperiment ==
    /\ prog = "same" /\ pc = "setup_done"
    /\ IF result = "true"
       THEN /\ pc' = "ops" /\ opi' = 1
            /\ ub' = (ub \/ ptr["batch_encoder"] = "dangling")
       ELSE /\ pc' = "next" /\ UNCHANGED <<opi, ub>>
    /\ UNCHANGED <<prog, cfg, probeVars, vecVars, context, ptr, keys, ci, pj, accepted, result,
                   attempts, logged>>

\* the four operations of run_experiment
SameOperations ==
    <<"CIPHER_ADD_CIPHER", "CIPHER_ADD_PLAIN", "CIPHER_MUL_PLAIN", "CIPHER_MUL_CIPHER">>

\* for (const auto& operation : operations) test_operation_single/large_vector:
\* encode, encrypt, the operation, decrypt, log_operation; an exception of the
\* backend is caught nowhere
\* the size of `result` when test_operation_single / test_operation_large_vector
\* decrypts it: evaluator->multiply(cipher, cipher, result) is followed by no
\* relinearization; the other three operations keep the size of a fresh ciphertext
SameResultSize(operation_type) ==
    IF operation_type = "CIPHER_MUL_CIPHER" THEN Multiply(FreshSize) ELSE FreshSize

SameTestOperation ==
    /\ prog = "same" /\ pc = "ops"
    /\ IF opi > Len(SameOperations)
       THEN /\ pc' = "next" /\ UNCHANGED <<opi, logged, ct_size>>
       ELSE \E out \in {"ok", "throw"} :
              IF out = "ok"
              THEN /\ logged' = logged + 1 /\ opi' = opi + 1 /\ pc' = "ops"
                   /\ ct_size' = SameResultSize(SameOperations[opi])
              ELSE /\ pc' = "terminated" /\ UNCHANGED <<opi, logged, ct_size>>
    /\ UNCHANGED <<prog, cfg, vecVars, context, ptr, keys, ci, pj, accepted, result,
                   attempts, ub>>
    /\ UNCHANGED <<ctx, operation_count, op_count, tgt, noise_budget, max_operations,
                   console, rows, applied, mismatched, faulted, prevFailed, bad>>

\* ~SEALExperimentSameInteger(), when run_all_experiments has returned
SameDestructor ==
    /\ prog = "same" /\ pc = "for" /\ cfg > SetupGridLen(prog)
    /\ ptr' = Deleted(ptr)
    /\ ub' = (ub \/ DoubleDelete(ptr))
    /\ pc' \in IF DoubleDelete(ptr) THEN {"done", "crashed"} ELSE {"done"}
    /\ UNCHANGED <<prog, cfg, probeVars, vecVars, context, keys, ci, pj, accepted, result,
                   attempts, opi, logged>>

\* ------------------------------------------------------ seal_/rotation.cpp
\* if (poly_modulus_degree == 1024 || poly_modulus_degree == 2048)
RotSearches(degree) == degree = 1024 \/ degree = 2048
\* if (try_parameters(...)) { ... return true; }
RotReturnsOn(acc) == acc

RotSetupBegin ==
    /\ prog = "rotation" /\ pc = "for" /\ cfg <= SetupGridLen(prog)
    /\ LET to == IF RotSearches(Degree(prog, cfg)) THEN "try" ELSE "default" IN
         /\ ptr' = Deleted(ptr)
         /\ ub' = (ub \/ DoubleDelete(ptr))
         /\ pc' \in IF DoubleDelete(ptr) THEN {to, "crashed"} ELSE {to}
    /\ ci' = 1 /\ pj' = 1
    /\ context' = Earlier(context)
    /\ UNCHANGED <<prog, cfg, probeVars, vecVars, keys, accepted, result, attempts, opi, logged>>

RotTryParameters ==
    /\ prog = "rotation" /\ pc = "try"
    /\ \E out \in Outcomes(RotConstruction) :
         LET q == [x \in Ptrs |-> Assigned(RotConstruction, out, x, ptr[x], "live")]
             caught == Throws(RotConstruction, out)
         IN  /\ context' = ContextAfter(out, "candidate", Candidate(ci, pj))
             /\ keys' = [x \in KeyMembers |->
                           Assigned(RotConstruction, out, x, keys[x], "cur")]
             /\ ptr' = IF caught THEN Deleted(q) ELSE q
             /\ ub' = (ub \/ (caught /\ DoubleDelete(q)))
             /\ pc' \in IF caught /\ DoubleDelete(q) THEN {"tried", "crashed"}
                        ELSE {"tried"}
             /\ accepted' = Accepts(RotConstruction, out)
             /\ attempts' = Append(attempts, [c |-> Candidate(ci, pj),
                                              ok |-> Accepts(RotConstruction, out)])
    /\ UNCHANGED <<prog, cfg, probeVars, vecVars, ci, pj, result, opi, logged>>

\* the loop body of setup_context and, past the loops, the ERROR return
RotAfterTry ==
    /\ prog = "rotation" /\ pc = "tried"
    /\ IF RotReturnsOn(accepted)
       THEN /\ result' = "true"
            /\ pc' = "setup_done"
            /\ UNCHANGED <<ptr, ub, ci, pj>>
       ELSE LET more == pj < Len(RotPlainModulusOptions)
                        \/ ci < Len(RotCoeffModulusOptions(Degree(prog, cfg)))
                to == IF more THEN "try" ELSE "setup_done"
            IN  /\ ptr' = Deleted(ptr)
                /\ ub' = (ub \/ DoubleDelete(ptr))
                /\ pc' \in IF DoubleDelete(ptr) THEN {to, "crashed"} ELSE {to}
                /\ pj' = IF pj < Len(RotPlainModulusOptions) THEN pj + 1 ELSE 1
                /\ ci' = IF pj < Len(RotPlainModulusOptions) THEN ci ELSE ci + 1
                /\ result' = IF more THEN result ELSE "false"
    /\ UNCHANGED <<prog, cfg, probeVars, vecVars, context, keys, accepted, attempts, opi, logged>>

\* "For larger degrees, use SEAL defaults"
RotDefault ==
    /\ prog = "rotation" /\ pc = "default"
    /\ \E out \in Outcomes(RotConstruction) :
         /\ context' = ContextAfter(out, "default", FallbackCandidate)
         /\ keys' = [x \in KeyMembers |->
                       Assigned(RotConstruction, out, x, keys[x], "cur")]
         /\ ptr' = [x \in Ptrs |-> Assigned(RotConstruction, out, x, ptr[x], "live")]
         /\ result' = IF Accepts(RotConstruction, out) THEN "true" ELSE "false"
         /\ attempts' = Append(attempts, [c |-> FallbackCandidate,
                                          ok |-> Accepts(RotConstruction, out)])
    /\ pc' = "setup_done"
    /\ UNCHANGED <<prog, cfg, probeVars, vecVars, ci, pj, accepted, opi, logged, ub>>

RotRunExperiment ==
    /\ prog = "rotation" /\ pc = "setup_done"
    /\ IF result = "true"
       THEN /\ pc' = "ops" /\ opi' = 1
            /\ ub' = (ub \/ ptr["batch_encoder"] = "dangling")
       ELSE /\ pc' = "next" /\ UNCHANGED <<opi, ub>>
    /\ UNCHANGED <<prog, cfg, probeVars, vecVars, context, ptr, keys, ci, pj, accepted, result,
                   attempts, logged>>

\* the rotations test_rotation times and logs
RotRotations == <<"ROTATE_LEFT_1", "ROTATE_RIGHT_1", "ROTATE_COLUMNS">>

\* vector<pair<string, int>> rotations = {{"ROTATE_LEFT_1", 1}, {"ROTATE_RIGHT_1", -1}}:
\* the second component of each pair
RotSteps == <<1, 0 - 1>>

\* the step count test_rotation passes to rotate_rows:
\* if (steps > 0) rotate_rows(cipher, steps, ...) else rotate_rows(cipher, -steps, ...)
RotPassedSteps(steps) == IF steps > 0 THEN steps ELSE 0 - steps

\* Evaluator::rotate_rows on one row of the slot matrix: a cyclic rotation to the
\* left by k slots (to the right for negative k)
RotateRows(row, k) ==
    [i \in 1..Len(row) |-> row[(((i - 1 + k) % Len(row)) + 1)]]

\* test_rotation: encode and encrypt, then one rotation and its log_rotation per step
RotTestRotation ==
    /\ prog = "rotation" /\ pc = "ops"
    /\ IF opi > Len(RotRotations)
       THEN /\ pc' = "next" /\ UNCHANGED <<opi, logged>>
       ELSE \E out \in {"ok", "throw"} :
              IF out = "ok"
              THEN /\ logged' = logged + 1 /\ opi' = opi + 1 /\ pc' = "ops"
              ELSE /\ pc' = "terminated" /\ UNCHANGED <<opi, logged>>
    /\ UNCHANGED <<prog, cfg, probeVars, vecVars, context, ptr, keys, ci, pj, accepted, result,
                   attempts, ub>>

RotDestructor ==
    /\ prog = "rotation" /\ pc = "for" /\ cfg > SetupGridLen(prog)
    /\ ptr' = Deleted(ptr)
    /\ ub' = (ub \/ DoubleDelete(ptr))
    /\ pc' \in IF DoubleDelete(ptr) THEN {"done", "crashed"} ELSE {"done"}
    /\ UNCHANGED <<prog, cfg, probeVars, vecVars, context, keys, ci, pj, accepted, result,
                   attempts, opi, logged>>

\* run_experiment returned: the loops of run_all_experiments move on
SetupNext ==
    /\ prog \in {"same", "rotation"} /\ pc = "next"
    /\ cfg' = cfg + 1
    /\ pc' = "for"
    /\ accepted' = FALSE
    /\ result' = "none"
    /\ attempts' = <<>>
    /\ opi' = 0
    /\ logged' = 0
    /\ UNCHANGED <<prog, probeVars, vecVars, context, ptr, keys, ci, pj, ub>>

\* ------------------------------------------------------ seal_/different.cpp
\* run_all_experiments of SEALExperimentRandomIntegers: the same two loops, with
\* `try { run_experiment(poly_degree, vec_size); } catch (const exception& e)`
DiffDegrees == <<1024, 2048, 4096, 8192, 16384, 32768>>
\* for (int i = 10; i <= 20; i++) vector_sizes.push_back(1 << i)
DiffSizes == Min(20 - 10 + 1, MaxVectorSizes)

\* the statements of setup_context that follow `context = make_shared<...>`
DiffConstruction ==
    <<"keygen", "secret_key", "public_key", "relin_keys", "encryptor", "evaluator",
      "decryptor", "batch_encoder">>

\* setup_context: cleanup(), the parameters, the context and the construction
\* statements; it tests nothing and catches nothing, so an exception leaves it
\* (and run_experiment) with the members as they are at that point
DiffSetupContext ==
    /\ prog = "different" /\ pc = "for" /\ cfg <= Len(DiffDegrees) * DiffSizes
    /\ \E out \in Outcomes(DiffConstruction) \ {[kind |-> "invalid", n |-> 0]} :
         LET q == Deleted(ptr)
             to == IF Accepts(DiffConstruction, out) THEN "ops" ELSE "catch"
         IN  /\ ub' = (ub \/ DoubleDelete(ptr))
             /\ pc' \in IF DoubleDelete(ptr) THEN {to, "crashed"} ELSE {to}
             /\ context' = IF out.kind = "throw_params" THEN Earlier(context)
                           ELSE [src |-> "default", cand |-> FallbackCandidate,
                                 valid |-> TRUE]
             /\ ptr' = [x \in Ptrs |-> Assigned(DiffConstruction, out, x, q[x], "live")]
             /\ keys' = [x \in KeyMembers |->
                           Assigned(DiffConstruction, out, x, keys[x], "cur")]
             /\ opi' = IF Accepts(DiffConstruction, out) THEN 1 ELSE opi
             /\ logged' = 0
    /\ UNCHANGED <<prog, cfg, probeVars, vector_size, slot_count, num_ciphertexts, chunk,
                   plain_data, total_real, wrong, matches, rng,
                   ci, pj, accepted, result, attempts>>

\* for (const auto& operation : operations) test_operation_single/large_vector:
\* generate_random_vector (which advances the member rng), encode, encrypt, the
\* operation, decrypt, log_operation; an exception leaves run_experiment
DiffTestOperation ==
    /\ prog = "different" /\ pc = "ops"
    /\ IF opi > Len(SameOperations)
       THEN /\ pc' = "for" /\ cfg' = cfg + 1
            /\ UNCHANGED <<opi, logged, rng>>
       ELSE \E out \in {"ok", "throw"} :
              /\ rng' = rng + 1
              /\ IF out = "ok"
                 THEN /\ logged' = logged + 1 /\ opi' = opi + 1 /\ UNCHANGED <<pc, cfg>>
                 ELSE /\ pc' = "catch" /\ UNCHANGED <<opi, logged, cfg>>
    /\ UNCHANGED <<prog, probeVars, vector_size, slot_count, num_ciphertexts, chunk,
                   plain_data, total_real, wrong, matches,
                   context, ptr, keys, ci, pj, accepted, result, attempts, ub>>

\* catch (const exception& e) { cout << "Error with PolyModulus: " ... } and the
\* loop increment of run_all_experiments
DiffCatch ==
    /\ prog = "different" /\ pc = "catch"
    /\ pc' = "for" /\ cfg' = cfg + 1
    /\ UNCHANGED <<prog, probeVars, vecVars, setupVars>>

\* ~SEALExperimentRandomIntegers(), when run_all_experiments has returned
DiffDestructor ==
    /\ prog = "different" /\ pc = "for" /\ cfg > Len(DiffDegrees) * DiffSizes
    /\ ptr' = Deleted(ptr)
    /\ ub' = (ub \/ DoubleDelete(ptr))
    /\ pc' \in IF DoubleDelete(ptr) THEN {"done", "crashed"} ELSE {"done"}
    /\ UNCHANGED <<prog, cfg, probeVars, vecVars, context, keys, ci, pj, accepted, result,
                   attempts, opi, logged>>

\* ================= the chunked vector drivers and the comparison routines
\* seal_/different.cpp (test_operation_large_vector), HElib/with_HEXL/different.cpp
\* and HElib/without_HEXL/same2.cpp split a data vector over ciphertexts; the
\* comparison loops of depth_cipher+cipher.cpp, polydegree_p_depth_eval.cpp and
\* HElib/with_HEXL/different.cpp decide whether a decrypted vector is accepted.
MaxVectorLen == 12
MaxSlotCount == 5
\* one larger input: a vector of LargeVectorSize values over LargeSlotCount slots
LargeVectorSize == 100000
LargeSlotCount == 8192
\* wrong decrypted values are injected at slot indices below MaxWrongSlots
MaxWrongSlots == 5

ChunkProgs == {"seal_diff", "hexl_diff", "same2"}
CompareProgs == {"plus_compare", "verifyOperation"}

ChunkCount_Floor(v, n) == v \div n

\* size_t num_ciphertexts = (vector_size + slot_count - 1) / slot_count;
\* long chunks = (vec_size + nslots - 1) / nslots;
ChunkCount(v, n) == (v + n - 1) \div n

\* size_t current_size = min(slot_count, vector_size - i * slot_count);
CurrentSize(v, n, i) == Min(n, v - i * n)

\* seal_/different.cpp: if (current_size < slot_count) plain_data.resize(slot_count, 0);
SealPadded(size, n) ==
    IF size < n THEN [real |-> size, zeros |-> n - size] ELSE [real |-> size, zeros |-> 0]

\* the HElib drivers: data1.resize(nslots, 0);
HElibPadded(size, n) ==
    IF size <= n THEN [real |-> size, zeros |-> n - size] ELSE [real |-> n, zeros |-> 0]

\* a loop `for (i = 0; i < n; i++) if (decrypted[i] != expected[i]) { fail; break; }`
\* started at index i, over a decrypted vector that is wrong at the indices in w
RECURSIVE CompareFrom(_, _, _)
CompareFrom(i, n, w) ==
    IF i >= n THEN TRUE
    ELSE IF i \in w THEN FALSE
    ELSE CompareFrom(i + 1, n, w)

\* long validation_count = min(3L, chunk_size);
ValidationCount(size) == Min(3, size)

\* the decrypted vectors the backend can return for a ciphertext of n slots
WrongSets(n) == SUBSET (0..(Min(n, MaxWrongSlots) - 1))

\* test_operation_large_vector up to its loop (run_experiment calls it when
\* vector_size > slot_count); the HElib drivers up to the loop over the chunks
ChunkBegin ==
    /\ prog \in ChunkProgs /\ pc = "begin"
    /\ num_ciphertexts' = ChunkCount(vector_size, slot_count)
    /\ chunk' = 0
    /\ pc' = "chunk"
    /\ UNCHANGED <<prog, cfg, probeVars, setupVars, rng, vector_size, slot_count, plain_data,
                   total_real, wrong, matches>>

\* one evaluation of the loop condition of test_operation_large_vector and one
\* body: current_size, the random data, the padding, encrypt, operate, decrypt
SealDiffChunk ==
    /\ prog = "seal_diff" /\ pc = "chunk"
    /\ IF chunk < num_ciphertexts
       THEN LET size == CurrentSize(vector_size, slot_count, chunk) IN
            /\ plain_data' = SealPadded(size, slot_count)
            /\ total_real' = total_real + size
            /\ \E w \in WrongSets(slot_count) : wrong' = w
            /\ chunk' = chunk + 1
            /\ UNCHANGED pc
       ELSE /\ pc' = "log"
            /\ UNCHANGED <<plain_data, total_real, wrong, chunk>>
    /\ UNCHANGED <<prog, cfg, probeVars, setupVars, rng, vector_size, slot_count,
                   num_ciphertexts, matches>>

\* one evaluation of `chunk < chunks` in HElib/with_HEXL/different.cpp and one
\* body: chunk_size, the data, the padding, the operation and, for chunk 0 only,
\* the decryption and the validation of the first validation_count elements
HexlDiffChunk ==
    /\ prog = "hexl_diff" /\ pc = "chunk"
    /\ IF chunk < num_ciphertexts
       THEN LET size == CurrentSize(vector_size, slot_count, chunk) IN
            /\ plain_data' = HElibPadded(size, slot_count)
            /\ total_real' = total_real + size
            /\ \E w \in WrongSets(slot_count) :
                 /\ wrong' = w
                 /\ matches' = IF chunk = 0
                               THEN (matches /\ CompareFrom(0, ValidationCount(size), w))
                               ELSE matches
            /\ chunk' = chunk + 1
            /\ UNCHANGED pc
       ELSE /\ pc' = "log"
            /\ UNCHANGED <<plain_data, total_real, wrong, chunk, matches>>
    /\ UNCHANGED <<prog, cfg, probeVars, setupVars, rng, vector_size, slot_count,
                   num_ciphertexts>>

\* the same loop in HElib/without_HEXL/same2.cpp, which decrypts chunk 0 and
\* validates nothing
Same2Chunk ==
    /\ prog = "same2" /\ pc = "chunk"
    /\ IF chunk < num_ciphertexts
       THEN LET size == CurrentSize(vector_size, slot_count, chunk) IN
            /\ plain_data' = HElibPadded(size, slot_count)
            /\ total_real' = total_real + size
            /\ \E w \in WrongSets(slot_count) : wrong' = w
            /\ chunk' = chunk + 1
            /\ UNCHANGED pc
       ELSE /\ pc' = "log"
            /\ UNCHANGED <<plain_data, total_real, wrong, chunk>>
    /\ UNCHANGED <<prog, cfg, probeVars, setupVars, rng, vector_size, slot_count,
                   num_ciphertexts, matches>>

\* log_operation / logResult after the loop
ChunkLog ==
    /\ prog \in ChunkProgs /\ pc = "log"
    /\ pc' = "done"
    /\ UNCHANGED <<prog, cfg, probeVars, setupVars, vecVars>>

\* depth_cipher+cipher.cpp: decrypt, decode, then
\* for (i = 0; i < initial_vec.size(); i++) if (result_vec[i] != expected) { matches = false; break; }
PlusCompare ==
    /\ prog = "plus_compare" /\ pc = "begin"
    /\ \E w \in WrongSets(slot_count) :
         /\ wrong' = w
         /\ matches' = CompareFrom(0, vector_size, w)
    /\ pc' = "done"
    /\ UNCHANGED <<prog, cfg, probeVars, setupVars, rng, vector_size, slot_count,
                   num_ciphertexts, chunk, plain_data, total_real>>

\* polydegree_p_depth_eval.cpp: verifyOperation(expected, decrypted, vector_size)
VerifyOperation ==
    /\ prog = "verifyOperation" /\ pc = "begin"
    /\ \E w \in WrongSets(slot_count) :
         /\ wrong' = w
         /\ matches' = CompareFrom(0, vector_size, w)
    /\ pc' = "done"
    /\ UNCHANGED <<prog, cfg, probeVars, setupVars, rng, vector_size, slot_count,
                   num_ciphertexts, chunk, plain_data, total_real>>

\* ============================== the grid loops of the HElib vector drivers
\* main of HElib/with_HEXL/different.cpp and of HElib/without_HEXL/same2.cpp:
\*   for (long m : poly_degrees) { try { context, keys, warm-up;
\*       for (vec_size) for (op) { the loop over the chunks; logResult(...); }
\*   } catch (const exception& e) { cerr << ...; continue; } }
\* cfg indexes poly_degrees, ci vector_sizes and opi operations; rows holds the
\* rows written by logResult and console the configurations at which an
\* exception was thrown (s = 0: during the setup of m).
HElibGridProgs == {"hexl_diff_main", "same2_main"}
HElibGridDegrees == <<4096, 8192, 16384, 32768>>
HElibGridVectorSizes == <<1024, 2048, 4096, 8192, 16384, 32768, 65536>>
\* the drivers are run with the first MaxVectorSizes entries of vector_sizes
HElibGridSizes == Min(Len(HElibGridVectorSizes), MaxVectorSizes)
HElibGridOperations ==
    <<"cipher_plus_cipher", "cipher_plus_plain", "cipher_times_plain", "cipher_times_cipher">>

\* the variables the grid loops of the HElib vector drivers never write
gridIdle == <<prog, ctx, operation_count, op_count, tgt, noise_budget, max_operations,
              applied, mismatched, faulted, prevFailed, bad, ct_size,
              context, ptr, keys, pj, accepted, result, attempts, logged, ub, vecVars>>

\* one evaluation of the loop over poly_degrees and the try block up to the
\* loop over vector_sizes: the context, the keys, `if (nslots < 100) continue;`
\* and the warm-up
HElibGridSetup ==
    /\ prog \in HElibGridProgs /\ pc = "for"
    /\ IF cfg > Len(HElibGridDegrees)
       THEN /\ pc' = "done" /\ UNCHANGED <<cfg, ci, opi, console>>
       ELSE \E out \in {"ok", "few_slots", "throw"} :
              CASE out = "ok" ->
                     /\ pc' = "ops" /\ ci' = 1 /\ opi' = 1
                     /\ UNCHANGED <<cfg, console>>
                [] out = "few_slots" ->
                     /\ pc' = "for" /\ cfg' = cfg + 1
                     /\ UNCHANGED <<ci, opi, console>>
                [] OTHER ->
                     /\ pc' = "catch"
                     /\ console' = console \cup {[m |-> HElibGridDegrees[cfg], s |-> 0, o |-> 0]}
                     /\ UNCHANGED <<cfg, ci, opi>>
    /\ UNCHANGED <<gridIdle, rows>>

\* one evaluation of the conditions of the loops over vector_sizes and
\* operations and one body: the loop over the chunks (encrypt, operate, decrypt)
\* and logResult; an exception leaves the try block
HElibGridOperation ==
    /\ prog \in HElibGridProgs /\ pc = "ops"
    /\ IF ci > HElibGridSizes
       THEN /\ pc' = "for" /\ cfg' = cfg + 1
            /\ UNCHANGED <<ci, opi, rows, console>>
       ELSE \E out \in {"ok", "throw"} :
              LET here == [m |-> HElibGridDegrees[cfg], s |-> ci, o |-> opi] IN
              IF out = "ok"
              THEN /\ rows' = Append(rows, here)
                   /\ opi' = IF opi < Len(HElibGridOperations) THEN opi + 1 ELSE 1
                   /\ ci' = IF opi < Len(HElibGridOperations) THEN ci ELSE ci + 1
                   /\ UNCHANGED <<pc, cfg, console>>
              ELSE /\ pc' = "catch"
                   /\ console' = console \cup {here}
                   /\ UNCHANGED <<cfg, ci, opi, rows>>
    /\ UNCHANGED gridIdle

\* catch (const exception& e) { cerr << "Error with m=" << m ...; continue; }
HElibGridCatch ==
    /\ prog \in HElibGridProgs /\ pc = "catch"
    /\ pc' = "for" /\ cfg' = cfg + 1
    /\ UNCHANGED <<gridIdle, ci, opi, rows, console>>

\* ------------------------------------------------------- specifications
InitProbe ==
    /\ ctx = "none"
    /\ operation_count = 0
    /\ op_count = 0
    /\ tgt = 0
    /\ noise_budget = 0
    /\ max_operations = 0
    /\ console = {}
    /\ rows = <<>>
    /\ applied = 0
    /\ mismatched = FALSE
    /\ faulted = FALSE
    /\ prevFailed = FALSE
    /\ bad = 0
    /\ ct_size = 0

\* the experiment object after its constructor
InitExperiment ==
    /\ context = NoContext
    /\ ptr = [x \in Ptrs |-> "null"]
    /\ keys = [x \in KeyMembers |-> "none"]
    /\ ci = 0
    /\ pj = 0
    /\ accepted = FALSE
    /\ result = "none"
    /\ attempts = <<>>
    /\ opi = 0
    /\ logged = 0
    /\ ub = FALSE

\* no vector driver runs
InitVector ==
    /\ vector_size = 0
    /\ slot_count = 0
    /\ num_ciphertexts = 0
    /\ chunk = 0
    /\ plain_data = [real |-> 0, zeros |-> 0]
    /\ total_real = 0
    /\ wrong = {}
    /\ matches = TRUE
    /\ rng = 0

InitDepth ==
    /\ prog \in {"plus", "plain", "times", "helib", "noise_x", "noise_p"}
    /\ pc = "for"
    /\ cfg = 1
    /\ InitProbe
    /\ InitExperiment
    /\ InitVector

InitSetup ==
    /\ prog \in {"same", "rotation", "different"}
    /\ pc = "for"
    /\ cfg = 1
    /\ InitProbe
    /\ InitExperiment
    /\ InitVector

\* the inputs of a vector run: a data vector and a slot count; a chunked run of
\* seal_/different.cpp has more values than slots, a comparison has no more real
\* values than slots
InitChunked ==
    /\ prog \in ChunkProgs \cup CompareProgs
    /\ pc = "begin"
    /\ cfg = 1
    /\ InitProbe
    /\ InitExperiment
    /\ \/ /\ vector_size \in 1..MaxVectorLen
          /\ slot_count \in 1..MaxSlotCount
       \/ /\ vector_size = LargeVectorSize
          /\ slot_count = LargeSlotCount
    /\ (prog = "seal_diff") => vector_size > slot_count
    /\ (prog \in CompareProgs) => vector_size <= slot_count
    /\ num_ciphertexts = 0
    /\ chunk = 0
    /\ plain_data = [real |-> 0, zeros |-> 0]
    /\ total_real = 0
    /\ wrong = {}
    /\ matches = TRUE
    /\ rng = 0

NextDepth ==
    \/ PlusGenerateContext \/ PlusProbeSetup \/ PlusWhile \/ PlusReturn \/ PlusEmit
    \/ PlusCatch
    \/ PlainGenerateContext \/ PlainProbeSetup \/ PlainWhile \/ PlainReturn \/ PlainEmit
    \/ PlainCatch
    \/ TimesGenerateContext \/ TimesProbeSetup \/ TimesWhile \/ TimesReturn \/ TimesEmit
    \/ TimesCatch
    \/ HElibBuild \/ HElibFor \/ HElibLogResult \/ HElibCatch
    \/ NoiseXSetup \/ NoiseXFirst \/ NoiseXWhile \/ NoiseXCatch
    \/ NoisePSetup \/ NoisePFirst \/ NoisePWhile \/ NoisePCatch
    \/ ForNext

NextSetup ==
    \/ SameSetupBegin \/ SameTryParameters \/ SameAfterTry \/ SameFallback
    \/ SameRunExperiment \/ SameTestOperation \/ SameDestructor
    \/ RotSetupBegin \/ RotTryParameters \/ RotAfterTry \/ RotDefault
    \/ RotRunExperiment \/ RotTestRotation \/ RotDestructor
    \/ SetupNext
    \/ DiffSetupContext \/ DiffTestOperation \/ DiffCatch \/ DiffDestructor

SpecDepth == InitDepth /\ [][NextDepth]_vars

SpecSetup == InitSetup /\ [][NextSetup]_vars

NextChunked ==
    \/ ChunkBegin \/ SealDiffChunk \/ HexlDiffChunk \/ Same2Chunk \/ ChunkLog
    \/ PlusCompare \/ VerifyOperation

SpecChunked == InitChunked /\ [][NextChunked]_vars

InitGrid ==
    /\ prog \in HElibGridProgs
    /\ pc = "for"
    /\ cfg = 1
    /\ InitProbe
    /\ InitExperiment
    /\ InitVector

NextGrid == HElibGridSetup \/ HElibGridOperation \/ HElibGridCatch

SpecGrid == InitGrid /\ [][NextGrid]_vars

\* the drivers whose loops are bounded by a safety cap, a checkpoint sequence or
\* a candidate list: one depth probe of each library, both noise probes, and
\* the two programs whose setup_context walks candidates
InitTermination ==
    /\ prog \in {"plus", "helib", "noise_x", "noise_p", "same", "rotation"}
    /\ pc = "for"
    /\ cfg = 1
    /\ InitProbe
    /\ InitExperiment
    /\ InitVector

NextTermination ==
    \/ PlusGenerateContext \/ PlusProbeSetup \/ PlusWhile \/ PlusReturn \/ PlusEmit
    \/ PlusCatch
    \/ HElibBuild \/ HElibFor \/ HElibLogResult \/ HElibCatch
    \/ NoiseXSetup \/ NoiseXFirst \/ NoiseXWhile \/ NoiseXCatch
    \/ NoisePSetup \/ NoisePFirst \/ NoisePWhile \/ NoisePCatch
    \/ ForNext
    \/ SameSetupBegin \/ SameTryParameters \/ SameAfterTry \/ SameFallback
    \/ SameRunExperiment \/ SameTestOperation \/ SameDestructor
    \/ RotSetupBegin \/ RotTryParameters \/ RotAfterTry \/ RotDefault
    \/ RotRunExperiment \/ RotTestRotation \/ RotDestructor
    \/ SetupNext

\* every program is one sequential thread and every backend call returns or
\* throws: a program that has a next statement executes it
SpecTermination ==
    InitTermination /\ [][NextTermination]_vars /\ WF_vars(NextTermination)

\* ================================================================ claims
SetupProgs == {"same", "rotation"}

\* the candidates of the running setup_context call in the order of its loops:
\* coefficient-modulus shape outer, plaintext modulus inner, then the attempt
\* setup_context makes itself
OrderedCandidates ==
    LET d == Degree(prog, cfg)
        nc == IF prog = "same" THEN Len(SameCoeffModulusOptions(d))
              ELSE Len(RotCoeffModulusOptions(d))
        np == IF prog = "same" THEN Len(SamePlainModulusOptions)
              ELSE Len(RotPlainModulusOptions)
        listed == [k \in 1..(nc * np) |-> <<((k - 1) \div np) + 1, ((k - 1) % np) + 1>>]
    IN  IF prog = "same" THEN Append(listed, FallbackCandidate)
        ELSE IF nc = 0 THEN <<FallbackCandidate>>
        ELSE listed

\* every member a test operation uses was built from the context now held
BuiltFromContext ==
    /\ context.valid
    /\ \A x \in Ptrs : ptr[x] = "live"
    /\ keys["secret_key"] = "cur" /\ keys["public_key"] = "cur"
    /\ (prog = "rotation") => keys["galois_keys"] = "cur"

\* C1: setup_context tries the candidates strictly in list order, the
\* candidates tried are a prefix of that order, no candidate is tried after one
\* succeeded, and when setup_context returns true the context and keys in use are
\* those of the last candidate tried, which is the first that succeeded.
C1_FirstFit ==
    (prog \in SetupProgs /\ cfg <= SetupGridLen(prog)) =>
        /\ Len(attempts) <= Len(OrderedCandidates)
        /\ \A k \in 1..Len(attempts) : attempts[k].c = OrderedCandidates[k]
        /\ \A k \in 1..(Len(attempts) - 1) : ~attempts[k].ok
        /\ (result = "true") =>
              /\ Len(attempts) > 0
              /\ attempts[Len(attempts)].ok
              /\ context.src \in {"candidate", "fallback", "default"}
              /\ context.cand = attempts[Len(attempts)].c
              /\ BuiltFromContext

\* a listed candidate was accepted after earlier ones were rejected
C1_Witness ==
    /\ prog = "same" /\ result = "true" /\ pc = "ops"
    /\ Len(attempts) >= 3
    /\ attempts[Len(attempts)].c # FallbackCandidate

\* C2: when try_parameters returns, it returns true exactly when
\* parameters_set() held for the context built from the candidate and the key
\* generator, keys, encryptor, evaluator, decryptor and batch encoder were all
\* built from that context; in every other case it returns false.
C2_AcceptedOnlyIfBuilt ==
    (prog \in SetupProgs /\ pc = "tried") =>
        (accepted <=> (/\ context.src = "candidate"
                       /\ context.cand = Candidate(ci, pj)
                       /\ BuiltFromContext))

\* try_parameters accepted a candidate after the call had rejected another
C2_Witness ==
    /\ prog = "rotation" /\ pc = "tried" /\ accepted
    /\ Len(attempts) > 1
    /\ context.valid

\* C3 as stated: once every candidate of the call has been tried and has
\* failed, setup_context returns false, no operation runs for the
\* configuration, and the driver goes on (the program has not stopped).
C3_AllFailSkips ==
    (/\ prog \in SetupProgs /\ cfg <= SetupGridLen(prog)
     /\ Len(attempts) = Len(OrderedCandidates)
     /\ \A k \in 1..Len(attempts) : ~attempts[k].ok) =>
        /\ pc \in {"tried", "setup_done", "next"}
        /\ (pc # "tried") => result = "false"
        /\ logged = 0


DepthProgs == {"plus", "plain", "times", "helib"}
SealDepthProgs == {"plus", "plain", "times"}

\* the safety cap of the running depth probe
Cap ==
    CASE prog = "plus" -> CapPlus
      [] prog = "plain" -> CapPlain
      [] prog = "times" -> CapTimes
      [] OTHER -> CapHElib

\* C4: whatever the backend does in one iteration of the grid loop of a depth
\* or noise driver, the loop takes its next element: the program stops only
\* when the loop has passed its last configuration.
C4_GridIsolation ==
    (prog \in DepthProgs \cup {"noise_x"}) =>
        /\ (pc = "done") => cfg = GridLen(prog) + 1
        /\ (pc # "done") => ENABLED NextDepth
        /\ cfg <= GridLen(prog) + 1

\* a configuration emits a positive result right after one that failed
C4_Witness ==
    /\ prog = "times" /\ prevFailed /\ pc = "next"
    /\ rows = <<max_operations>> /\ max_operations > 0

\* C5 as stated: every iteration of the grid loop of a depth driver ends with
\* exactly one row written, and the row holds 0 when the setup failed before
\* any chain operation.
C5_OneRowPerConfiguration ==
    (prog \in DepthProgs /\ pc = "next") =>
        /\ Len(rows) = 1
        /\ (faulted /\ applied = 0) => rows[1] = 0

\* C6: the probe's counter, the value it returns and every row written never
\* exceed the safety cap of the probe.
C6_NeverAboveCap ==
    (prog \in DepthProgs) =>
        /\ operation_count <= Cap
        /\ max_operations <= Cap
        /\ \A k \in 1..Len(rows) : rows[k] <= Cap

\* a row holding exactly the cap, written by a run that ended on a mismatch
C6_Witness ==
    /\ prog = "plain" /\ pc = "next" /\ rows = <<CapPlain>> /\ mismatched

\* C7 as stated: a probe that detected a mismatch after the operation that
\* brought operation_count to n reports n - 1.
C7_ReportsLastVerified ==
    (prog \in SealDepthProgs /\ pc \in {"emit", "next"} /\ mismatched) =>
        max_operations = operation_count - 1

\* C8: the mismatch report is printed only by a run in which a verification
\* failed, and a run whose verifications all passed up to the cap ends with the
\* cap report and without the mismatch report.
C8_CapIsNotMismatch ==
    (prog \in SealDepthProgs) =>
        /\ ("mismatch" \in console) => mismatched
        /\ (pc \in {"emit", "next"} /\ ~mismatched /\ ~faulted
              /\ operation_count = Cap) =>
              ("cap" \in console /\ "mismatch" \notin console)

\* a run reached the cap with every verification passed
C8_Witness ==
    /\ prog = "times" /\ pc = "emit" /\ operation_count = CapTimes
    /\ ~mismatched /\ ~faulted /\ console = {"cap"}

\* C9 as stated: no run prints both the mismatch and the cap report, and a
\* run that ended on a mismatch returns a value other than the cap.
C9_CapAndMismatchExclusive ==
    (prog \in SealDepthProgs) =>
        /\ ~({"mismatch", "cap"} \subseteq console)
        /\ (pc \in {"emit", "next"} /\ mismatched) => max_operations # Cap

\* C10: a probe run without mismatch and without backend fault applies no
\* operation beyond the cap and reports exactly the cap.
C10_CleanRunReportsCap ==
    (prog \in DepthProgs) =>
        /\ applied <= Cap
        /\ (pc \in {"emit", "next"} /\ ~mismatched /\ ~faulted) =>
              (max_operations = Cap /\ applied = Cap)
        /\ (pc = "next" /\ ~mismatched /\ ~faulted) => rows = <<Cap>>

\* the additive probe wrote the cap after a clean run
C10_Witness ==
    /\ prog = "plus" /\ pc = "next" /\ ~mismatched /\ ~faulted
    /\ rows = <<CapPlus>> /\ applied = CapPlus

NoiseProgs == {"noise_x", "noise_p"}

\* C11 as stated: the row a noise probe writes for an exhausted chain holds
\* n - 1, where n is the operation count after which the budget was found
\* non-positive.
C11_RecordsLastSafeDepth ==
    (prog \in NoiseProgs) =>
        \A k \in 1..Len(rows) :
            rows[k].exhausted => rows[k].ops = operation_count - 1

\* C12 as stated: while a probe runs and when it returns, the count it holds
\* and the count it reports equal the number of chain operations the backend
\* completed on the running ciphertext, also when the run ended on an
\* exception; the operation applied during setup is counted as operation 1.
C12_CountEqualsApplied ==
    (prog \in {"plus", "times", "noise_p"}) =>
        /\ (pc \in {"while", "after", "emit", "catch"}) => operation_count = applied
        /\ (prog \in {"plus", "noise_p"} /\ pc = "while") => operation_count >= 1
        /\ (prog \in {"plus", "times"} /\ pc = "emit" /\ ctx = "valid") =>
              max_operations = applied

\* C13 as stated: when the additive probe has returned max_operations, the
\* running ciphertext decrypted to the expected value after each of the
\* additions 1..max_operations, that is, it had not failed by then.
C13_AdditiveOracleHolds ==
    (prog = "plus" /\ pc = "emit") => (bad = 0 \/ max_operations < bad)

\* C14 as stated: when a multiplicative probe has returned max_operations, the
\* running ciphertext decrypted to the expected power after each of the
\* multiplications 1..max_operations.
C14_MultiplicativeOracleHolds ==
    (prog \in {"times", "plain"} /\ pc = "emit") => (bad = 0 \/ max_operations < bad)

\* C15 as stated: a configuration whose probe ran on a valid context and met a
\* backend exception, at whatever step of the chain, ends with the single row 0.
C15_FaultRecordsZero ==
    (prog \in SealDepthProgs /\ pc = "next" /\ faulted /\ ctx = "valid") =>
        rows = <<0>>

\* the least number of ciphertexts of n slots that hold v values
CeilDiv(v, n) == (v \div n) + (IF v % n = 0 THEN 0 ELSE 1)

\* C16: a chunked driver processes ceil(vector_size / slot_count) chunks (13
\* for 100000 values over 8192 slots); every chunk carries between 1 and
\* slot_count real values followed by zeros up to slot_count; the real values of
\* all chunks add up to vector_size.
C16_Chunking ==
    (prog \in ChunkProgs) =>
        /\ (pc # "begin") => num_ciphertexts = CeilDiv(vector_size, slot_count)
        /\ (chunk >= 1) =>
              /\ 1 <= plain_data.real /\ plain_data.real <= slot_count
              /\ plain_data.real + plain_data.zeros = slot_count
        /\ chunk <= num_ciphertexts
        /\ (pc \in {"log", "done"}) =>
              (chunk = num_ciphertexts /\ total_real = vector_size)
        /\ (pc = "done" /\ vector_size = 100000 /\ slot_count = 8192) => chunk = 13

\* the large vector was split into 13 chunks, the last one padded
C16_Witness ==
    /\ prog = "seal_diff" /\ pc = "done"
    /\ vector_size = LargeVectorSize /\ slot_count = LargeSlotCount
    /\ chunk = 13 /\ plain_data.zeros > 0 /\ total_real = vector_size

\* C17: every operation on the running ciphertext, the first one of the setup
\* included, is followed by a failure check before another operation is applied:
\* a probe at the head of its loop holds a ciphertext that passed its check, and
\* a failure present after operation 1 is detected with operation_count = 1.
C17_CheckedAfterEveryOperation ==
    (prog \in {"plus", "noise_p", "noise_x"}) =>
        /\ (pc = "while") => bad = 0
        /\ (bad = 1 /\ mismatched) => operation_count = 1
        /\ (bad = 1 /\ prog \in NoiseProgs /\ pc = "next" /\ ~faulted) =>
              \E k \in 1..Len(rows) : rows[k].exhausted /\ rows[k].ops = 1

\* a run has detected a terminal condition: an oracle mismatch, a backend
\* exception, a non-positive noise budget, or the cap
Terminal ==
    \/ mismatched
    \/ faulted
    \/ prog \in NoiseProgs /\ rows # <<>> /\ rows[Len(rows)].exhausted
    \/ prog = "plus" /\ ~PlusLoopCond(operation_count)
    \/ prog = "plain" /\ ~PlainLoopCond(operation_count)
    \/ prog = "times" /\ ~TimesLoopCond(operation_count)
    \/ prog = "helib" /\ ~HElibLoopCond(op_count)

\* C18: once a run has detected a terminal condition, no further operation is
\* applied to the running ciphertext and the operation counter keeps its value
\* until the run has reported (the grid loop then starts the next run).
C18_TerminalIsFinal ==
    [][(Terminal /\ pc # "next") =>
          /\ applied' = applied
          /\ operation_count' = operation_count
          /\ op_count' = op_count
          /\ ct_size' = ct_size]_vars

\* a mismatch was detected, the result was returned and written, and the
\* counter still equals the number of operations applied
C18_Witness ==
    /\ prog = "plus" /\ mismatched /\ pc = "next"
    /\ rows = <<operation_count>>
    /\ applied = operation_count /\ operation_count >= 2

\* C20: in every ciphertext x ciphertext multiplication chain each multiply is
\* followed by exactly one relinearization before the next multiply, decryption
\* or noise-budget query: the ciphertext a probe holds between two operations,
\* and the ciphertext a benchmark has decrypted, has the size of a fresh one.
C20_RelinearizedAfterEveryMultiply ==
    /\ (prog \in {"times", "noise_x"} /\ pc \in {"while", "after", "emit", "next"}
          /\ applied >= 1 /\ ~faulted) => ct_size = FreshSize
    /\ (prog = "same" /\ logged >= 1) => ct_size = FreshSize

\* C19: a comparison covers exactly the slots that carry real data: it accepts
\* the decrypted vector if and only if no slot below the number of real values is
\* wrong, so a wrong value in any single real-data slot is reported as a failure.
C19_ComparisonCoversRealSlots ==
    /\ (prog \in CompareProgs /\ pc = "done") =>
          (matches <=> (wrong \cap (0..(vector_size - 1)) = {}))
    /\ (prog = "hexl_diff" /\ chunk = 1) =>
          (matches <=> (wrong \cap (0..(plain_data.real - 1)) = {}))

\* C21: in a chunked run every chunk is compared with the expected values of
\* its own data: once a chunk has been decrypted with a wrong value in one of its
\* real-data slots, whichever chunk it is, the validation result of the run is
\* failed.
C21_EveryChunkValidated ==
    (prog \in {"hexl_diff", "seal_diff"} /\ chunk >= 1
       /\ wrong \cap (0..(plain_data.real - 1)) # {}) => ~matches

\* C23: an exception of the backend during the context construction, the key
\* generation or an operation of one configuration does not end the program:
\* the driver stops only when its grid loop has passed the last configuration.
C23_FaultDoesNotTerminate ==
    (prog = "same" /\ pc = "terminated") => cfg > SetupGridLen(prog)

\* C22: in the HElib vector drivers an exception thrown while configuration
\* (m, vector size s, operation o) is processed does not keep the rows of the
\* other vector sizes and operations of the same m from being written: when the
\* driver has finished, every other (s, o) of that m has its row.
C22_FaultSkipsOnlyItsConfiguration ==
    (prog \in HElibGridProgs /\ pc = "done") =>
        \A f \in console : (f.s >= 1) =>
            \A s \in 1..HElibGridSizes, o \in 1..Len(HElibGridOperations) :
                (<<s, o>> # <<f.s, f.o>>) =>
                    \E k \in 1..Len(rows) : rows[k] = [m |-> f.m, s |-> s, o |-> o]

\* C24: configurations share no mutable state: when the run of a configuration
\* starts, no pointer deleted during an earlier configuration is left for
\* cleanup() to use, and the position of the random generator depends on the
\* index of the configuration only, not on how the earlier configurations ended.
C24_ConfigurationsIndependent ==
    /\ (prog = "same" /\ pc = "for" /\ cfg <= SetupGridLen(prog)) => ~DoubleDelete(ptr)
    /\ (prog = "different" /\ pc = "for" /\ cfg <= Len(DiffDegrees) * DiffSizes) =>
          /\ ~DoubleDelete(ptr)
          /\ rng = (cfg - 1) * Len(SameOperations)

\* C26: over any sequence of setup_context calls and the final destructor,
\* every object allocated with new is deleted at most once, and no pointer is
\* dereferenced or deleted after its object was deleted.
C26_MemorySafe ==
    (prog \in {"same", "rotation", "different"}) => (~ub /\ pc # "crashed")

\* plain_vector[i] = i: one row of n slots
RotPlainRow(n) == [i \in 1..n |-> i - 1]

\* C25: the rotation logged as ROTATE_RIGHT_1 is the inverse of the one logged
\* as ROTATE_LEFT_1: the step count passed to rotate_rows for the second is the
\* negation of the step count passed for the first, and applying one after the
\* other gives back the original row.
C25_RightInvertsLeft ==
    (prog = "rotation" /\ pc = "ops" /\ opi > 2) =>
        /\ RotPassedSteps(RotSteps[2]) = 0 - RotPassedSteps(RotSteps[1])
        /\ \A n \in 3..MaxSlotCount :
             RotateRows(RotateRows(RotPlainRow(n), RotPassedSteps(RotSteps[1])),
                        RotPassedSteps(RotSteps[2])) = RotPlainRow(n)

InitialValue == 2
\* the plaintext modulus of the configuration a SEAL depth probe runs
CurrentModulus ==
    get_plaintext_modulus(prog, CASE prog = "plus" -> PlusDegrees[cfg]
                                  [] prog = "times" -> TimesDegrees[cfg]
                                  [] OTHER -> PlainDegrees[cfg])

\* C28: the oracle is aligned with the chain: while no exception has been
\* thrown, the counter the oracle uses equals the number of operations applied
\* to the running ciphertext, and the value the oracle expects at that counter
\* is the value an exact backend decrypts (computed for the first counters); so
\* with a backend that never fails a probe reports no mismatch and returns
\* exactly the cap.
C28_OracleAligned ==
    (prog \in SealDepthProgs /\ ctx = "valid" /\ ~faulted
       /\ pc \in {"while", "after", "emit"}) =>
        /\ operation_count = applied
        /\ (operation_count <= MaxEarlyOps + 1) =>
              Expected(prog, InitialValue, operation_count, CurrentModulus)
                = ExactValue(prog, InitialValue, applied, CurrentModulus)
        /\ (pc = "emit" /\ bad = 0) => (~mismatched /\ max_operations = Cap)

\* the multiplicative probe ran to the cap on a backend that never failed
C28_Witness ==
    /\ prog = "times" /\ pc = "emit" /\ bad = 0 /\ ~faulted /\ ~mismatched
    /\ applied = CapTimes /\ max_operations = CapTimes

\* the operation_sequence of the configuration a noise probe runs
NoiseSequence ==
    IF prog = "noise_x" THEN NoiseXSequence(NoiseXDegrees[cfg])
    ELSE NoisePSequence(NoisePDegrees[cfg])
\* the k-th checkpoint: 1, then the entries of operation_sequence
NoiseTarget(k) == IF k = 1 THEN 1 ELSE NoiseSequence[k - 1]

\* C29: in the noise probes every row written for a chain that is not exhausted
\* carries the checkpoint target of its position (1, then the entries of
\* operation_sequence in order), the operation counts of the rows increase
\* strictly, operation_count never exceeds the last target, and at most one
\* NOISE EXHAUSTED row is written, as the last row.
C29_CheckpointRows ==
    (prog \in NoiseProgs /\ cfg <= GridLen(prog)) =>
        /\ Len(rows) <= Len(NoiseSequence) + 1
        /\ \A k \in 1..Len(rows) :
             /\ ~rows[k].exhausted => rows[k].ops = NoiseTarget(k)
             /\ rows[k].exhausted => k = Len(rows)
        /\ \A k \in 1..(Len(rows) - 1) : rows[k].ops < rows[k + 1].ops
        /\ operation_count <= NoiseSequence[Len(NoiseSequence)]

\* the additive noise probe wrote two checkpoint rows and then, before the next
\* checkpoint, the row of an exhausted chain
C29_Witness ==
    /\ prog = "noise_p" /\ pc = "next" /\ Len(rows) = 3
    /\ rows[3].exhausted /\ rows[3].ops = 3
    /\ ~rows[2].exhausted /\ rows[2].ops = 2

\* the program has ended: its grid loop has passed its last configuration, an
\* exception has left main, or the process was ended at a double delete
Ended == pc \in {"done", "terminated", "crashed"}

\* the loop counters stay within the safety cap, the last checkpoint target and
\* the candidate list
IterationsBounded ==
    /\ (prog \in DepthProgs) => (applied <= Cap /\ operation_count <= Cap)
    /\ (prog = "helib") => op_count <= Cap + 1
    /\ (prog \in NoiseProgs /\ cfg <= GridLen(prog)) =>
          operation_count <= NoiseSequence[Len(NoiseSequence)]
    /\ (prog \in SetupProgs /\ cfg <= SetupGridLen(prog)) =>
          Len(attempts) <= Len(OrderedCandidates)

\* a program that ends without a double delete ends outside setup_context: after
\* the last configuration, or in an operation that follows a call that returned
\* true
ReturnedFromSetup ==
    (prog \in SetupProgs /\ Ended /\ ~ub) =>
        /\ pc # "crashed"
        /\ (pc = "done") => cfg > SetupGridLen(prog)
        /\ (pc = "terminated") => (result = "true" /\ opi >= 1)

====
